---- MODULE Spec2Model ----
(***************************************************************************)
(* Headless execution and session runtime of the container runtime:        *)
(* WorkspaceManager, ClaudeExecutor, ExecutionRegistry, SessionManager and *)
(* ExecutionService, as one state machine on a single-threaded event loop. *)
(* Every request, sweep or shutdown is a task; a task's pc is the await it *)
(* is suspended at.  One action is one synchronous run of a handler or of  *)
(* the continuation of an async function.  The workspace created by task t *)
(* is named t, and so are its child process and its execution id.          *)
(***************************************************************************)
EXTENDS Integers, Sequences, FiniteSets, TLC

(* ---------------------------------------------------------------------- *)
(* Bounds                                                                  *)
(* ---------------------------------------------------------------------- *)
\* buffered requests of a behaviour of SpecBuffered
MaxBuf == 1
\* streaming requests of a behaviour of SpecStream
MaxExec == 2
\* lines (chunks) an agent process writes to stdout
MaxLines == 2

\* getOrCreate, delete, sweep and shutdown calls of a behaviour of SpecSession
MaxCall == 3
\* session ids callers use
MaxSid == 2
\* clock ticks
MaxTime == 2
\* files in one writeFiles call
MaxFiles == 3
\* runs of SessionManager.execute in a behaviour of SpecResume
MaxRuns == 2

Max2(a, b) == IF a >= b THEN a ELSE b
MaxTask == Max2(Max2(Max2(MaxBuf, MaxExec), MaxCall), MaxRuns)
Tasks == 1..MaxTask

(* ---------------------------------------------------------------------- *)
(* Values                                                                  *)
(* ---------------------------------------------------------------------- *)
NoWs == 0
NoSid == 0
NoKey == 0
NullCode == -1
ErrnoCode == -2
ExitCodes == {0, 1}
StderrSet == {"", "boom"}
Sids == 1..MaxSid
KeySet == {NoKey, 1}
\* process.env.ANTHROPIC_API_KEY of the server process
AmbientKey == 3
\* DEFAULT_CONFIG.idleTimeoutMs, in clock ticks
IdleTimeoutMs == 1

Blank == " "
LineSet == { <<Blank>>, <<"{", "}">>, <<"x">> }
JsonTexts == { <<"{", "}">> }
\* the chunk a buffered run's agent writes after n earlier chunks: "h", "i",
\* "h", ... so that the order of concatenation shows in the output
ChunkSet(n) == { << IF n % 2 = 0 THEN "h" ELSE "i" >> }

\* no conversation id: undefined
NoToken == ""
\* members of the agent's JSON output: "c1" stands for "conversation_id":"c1",
\* "s3" for "session_id":"s3"; the member is named by its value
ConvMembers == {"c1", "c2"}
SessMembers == {"s3"}

NoError == [text |-> "", code |-> 0]
NoResp == [success |-> FALSE, output |-> <<>>, error |-> [text |-> "none", code |-> 0]]

\* A JSON value is described by its type tag: "undefined" (key absent),
\* "null", "number", "string", "array" or "object".
Absent == "undefined"
\* a request whose body was not parsed
NoBody == [ty |-> Absent, prompt |-> [ty |-> Absent, text |-> <<>>], files |-> [ty |-> Absent, items |-> <<>>],
           timeout |-> Absent, sessionId |-> [ty |-> Absent, sid |-> NoSid], apiKey |-> Absent]
\* no workspace path
NoPath == <<>>
\* a call that does not come from a route has no HTTP request
NoReq == [env |-> FALSE, bearer |-> "no request", xApiKey |-> FALSE, body |-> NoBody]

NoTask == [kind |-> "none", pc |-> "idle", files |-> FALSE, sid |-> NoSid, key |-> NoKey, ws |-> NoWs,
           todo |-> <<>>, ep |-> 0, ret |-> NoWs, stale |-> {}, fresh |-> {}, touched |-> {}, rp |-> 0,
           res |-> NoResp, paths |-> <<>>, written |-> {}, req |-> NoReq, path |-> NoPath]
NoProc == [st |-> "none", killed |-> FALSE, ignore |-> FALSE, sig |-> {},
           tmo |-> "none", grace |-> "none", cgrace |-> "none", out |-> <<>>, sout |-> <<>>,
           code |-> 0, stderr |-> "", resume |-> NoToken, env |-> NoKey]

VARIABLES
  nextTask,   \* next free task slot (tasks are numbered in arrival order)
  task,       \* task[t]: kind, pc (the await it is suspended at), request fields, workspacePath
  proc,       \* proc[t]: the child process spawned for task t, its timers and stdout
  creates,    \* creates[t]: calls of WorkspaceManager.create that returned a path to task t
  wsExists,   \* the workspace directories on disk
  cleanups,   \* cleanups[w]: calls of WorkspaceManager.cleanup(w)
  resp,       \* resp[t]: ExecuteResponse of a buffered request
  http,       \* http[t]: status code the /execute route answered with
  delivered,  \* delivered[t]: what the listeners on the caller-visible emitter received
  registry,   \* ExecutionRegistry.executions (its keys)
  cancelOk,   \* cancelOk[id]: calls of cancel(id) that returned true
  sessKeys,   \* keys of SessionManager.sessions in insertion order
  sessWs,     \* sessWs[sid]: the session stored under sid, named by its workspace (NoWs: none)
  sessLast,   \* sessLast[w]: lastActivity of the session whose workspace is w
  sessKey,    \* sessKey[w]: apiKey of that session
  now,        \* Date.now()
  timerOn,    \* the cleanup interval is set
  halted,     \* process.exit was called
  removals,   \* removals[sid]: times sid was removed from the session map
  sessConv    \* sessConv[w]: conversationId of the session whose workspace is w

sessVars == <<sessKeys, sessWs, sessLast, sessKey, now, timerOn, halted, removals, sessConv>>
vars == <<nextTask, task, proc, creates, wsExists, cleanups, resp, http, delivered, registry, cancelOk, sessVars>>

(* ---------------------------------------------------------------------- *)
(* ChildProcess and the timers of ClaudeExecutor.setupTimeout              *)
(* ---------------------------------------------------------------------- *)
\* subprocess.kill(signal): delivers the signal and sets .killed while the
\* child runs; does nothing once it has exited or was never started.
\* Whether the agent traps SIGTERM is drawn when the first SIGTERM arrives.
KillP(p, sig, ign) ==
  IF p.st = "running"
  THEN [p EXCEPT !.sig = @ \cup {sig},
                 !.killed = TRUE,
                 !.ignore = IF sig = "SIGTERM" /\ "SIGTERM" \notin p.sig THEN ign ELSE @]
  ELSE p

\* the exits the child can take: a voluntary exit with a code, or death by
\* a signal (code null) once SIGKILL, or an untrapped SIGTERM, was delivered
CanExit(p, code) ==
  \/ code \in ExitCodes
  \/ /\ code = NullCode
     /\ \/ "SIGKILL" \in p.sig
        \/ "SIGTERM" \in p.sig /\ ~p.ignore

\* spawnClaude then setupTimeout: the child starts, or the spawn fails and
\* an 'error' event is queued; the timeout timer is armed either way
SpawnP(p, ok) == [p EXCEPT !.st = IF ok THEN "running" ELSE "errpending", !.tmo = "armed"]

\* the child exits with a code after writing stderr, and 'close' is emitted
CloseP(p, code, stderr) == [p EXCEPT !.st = "closed", !.code = code, !.stderr = stderr]

\* clearTimeout(timeoutId)
ClearTimeoutP(p) == [p EXCEPT !.tmo = IF @ = "armed" THEN "cleared" ELSE @]

\* the outer callback of setupTimeout: SIGTERM, then arm the 5000 ms timer
TimeoutP(p, ign) == [KillP(p, "SIGTERM", ign) EXCEPT !.tmo = "fired", !.grace = "armed"]

\* the inner callback of setupTimeout: if (!process.killed) process.kill('SIGKILL')
GraceP(p) == [(IF ~p.killed THEN KillP(p, "SIGKILL", FALSE) ELSE p) EXCEPT !.grace = "fired"]

GraceFire(t) ==
  /\ proc[t].grace = "armed"
  /\ proc' = [proc EXCEPT ![t] = GraceP(@)]
  /\ UNCHANGED <<nextTask, task, creates, wsExists, cleanups, resp, http, delivered, registry, cancelOk, sessVars>>

(* ---------------------------------------------------------------------- *)
(* ClaudeExecutor.execute, ExecutionService.executeStateless, POST /execute*)
(* ---------------------------------------------------------------------- *)
CloseErrorStderrOnly(stderr, code) == [text |-> stderr, code |-> 0]

\* new Error(stderr || `Claude Code exited with code ${code}`)
CloseError(stderr, code) ==
  IF stderr # "" THEN [text |-> stderr, code |-> 0]
  ELSE [text |-> "Claude Code exited with code", code |-> code]

TimeoutError == [text |-> "Execution timed out", code |-> 0]
SpawnError == [text |-> "spawn claude ENOENT", code |-> 0]
CreateError == [text |-> "mkdir failed", code |-> 0]
WriteError == [text |-> "writeFile failed", code |-> 0]

Success(output) == [success |-> TRUE, output |-> output, error |-> NoError]
Failure(error) == [success |-> FALSE, output |-> <<>>, error |-> error]

\* resolve({output: stdout}) or reject(new Error(...)) in the close handler
CloseResult(p, code, stderr) ==
  IF code = 0 THEN Success(p.sout) ELSE Failure(CloseError(stderr, code))

NeedsCleanupNever(workspacePath) == FALSE

\* finally { if (workspacePath) await cleanup(workspacePath) }
NeedsCleanup(workspacePath) == workspacePath # NoWs

\* res.json(response) or res.status(500).json(response)
HttpStatus(response) == IF response.success THEN 200 ELSE 500

\* the return/catch and the finally of executeStateless, run as the
\* continuation of the await that settled
ExecSettle(t, response) ==
  /\ resp' = [resp EXCEPT ![t] = response]
  /\ IF NeedsCleanup(task[t].ws)
     THEN /\ cleanups' = [cleanups EXCEPT ![task[t].ws] = @ + 1]
          /\ task' = [task EXCEPT ![t].pc = "rm"]
     ELSE /\ UNCHANGED cleanups
          /\ task' = [task EXCEPT ![t].pc = "ret"]

\* a settled promise ignores every later resolve or reject
ExecSettleOnce(t, response) ==
  IF task[t].pc = "run" THEN ExecSettle(t, response) ELSE UNCHANGED <<resp, cleanups, task>>

StartExecuteOf(req, files) ==
  /\ nextTask <= MaxBuf
  /\ nextTask' = nextTask + 1
  /\ task' = [task EXCEPT ![nextTask] = [NoTask EXCEPT !.kind = "exec", !.pc = "create", !.files = files,
                                                      !.req = req]]
  /\ UNCHANGED <<proc, creates, wsExists, cleanups, resp, http, delivered, registry, cancelOk, sessVars>>

\* execute called directly
StartExecute(files) == StartExecuteOf(NoReq, files)

\* await workspaceManager.create() settles
ExecCreateDone(t, ok, spawnOk) ==
  /\ task[t].kind = "exec" /\ task[t].pc = "create"
  /\ IF ok
     THEN /\ creates' = [creates EXCEPT ![t] = @ + 1]
          /\ wsExists' = wsExists \cup {t}
          /\ task' = [task EXCEPT ![t].ws = t, ![t].pc = IF task[t].files THEN "write" ELSE "run"]
          /\ proc' = IF task[t].files THEN proc ELSE [proc EXCEPT ![t] = SpawnP(@, spawnOk)]
          /\ UNCHANGED <<cleanups, resp>>
     ELSE /\ ExecSettle(t, Failure(CreateError))
          /\ UNCHANGED <<creates, wsExists, proc>>
  /\ UNCHANGED <<nextTask, http, delivered, registry, cancelOk, sessVars>>

\* await workspaceManager.writeFiles() settles
ExecWriteDone(t, ok, spawnOk) ==
  /\ task[t].kind = "exec" /\ task[t].pc = "write"
  /\ IF ok
     THEN /\ task' = [task EXCEPT ![t].pc = "run"]
          /\ proc' = [proc EXCEPT ![t] = SpawnP(@, spawnOk)]
          /\ UNCHANGED <<cleanups, resp>>
     ELSE /\ ExecSettle(t, Failure(WriteError))
          /\ UNCHANGED proc
  /\ UNCHANGED <<nextTask, creates, wsExists, http, delivered, registry, cancelOk, sessVars>>

\* the agent writes a chunk and process.stdout.on('data') runs: stdout += data
BufData(t) ==
  /\ task[t].kind = "exec" /\ proc[t].st = "running"
  /\ Len(proc[t].out) < MaxLines
  /\ \E chunk \in ChunkSet(Len(proc[t].out)) :
       proc' = [proc EXCEPT ![t].out = Append(@, chunk), ![t].sout = Append(@, chunk)]
  /\ UNCHANGED <<nextTask, task, creates, wsExists, cleanups, resp, http, delivered, registry, cancelOk, sessVars>>

\* process.on('close'); after a failed spawn 'close' may follow 'error'
BufClose(t, code, stderr) ==
  /\ task[t].kind = "exec"
  /\ \/ proc[t].st = "running" /\ CanExit(proc[t], code)
     \/ proc[t].st = "errored" /\ code = ErrnoCode /\ stderr = ""
  /\ proc' = [proc EXCEPT ![t] = ClearTimeoutP(CloseP(@, code, stderr))]
  /\ ExecSettleOnce(t, CloseResult(proc[t], code, stderr))
  /\ UNCHANGED <<nextTask, creates, wsExists, http, delivered, registry, cancelOk, sessVars>>

\* process.on('error'): the spawn failed
BufSpawnError(t) ==
  /\ task[t].kind = "exec" /\ proc[t].st = "errpending"
  /\ proc' = [proc EXCEPT ![t] = [ClearTimeoutP(@) EXCEPT !.st = "errored"]]
  /\ ExecSettleOnce(t, Failure(SpawnError))
  /\ UNCHANGED <<nextTask, creates, wsExists, http, delivered, registry, cancelOk, sessVars>>

\* the setupTimeout callback with reject as its third argument
BufTimeout(t, ign) ==
  /\ task[t].kind = "exec" /\ proc[t].tmo = "armed" /\ proc[t].st # "errpending"
  /\ proc' = [proc EXCEPT ![t] = TimeoutP(@, ign)]
  /\ ExecSettleOnce(t, Failure(TimeoutError))
  /\ UNCHANGED <<nextTask, creates, wsExists, http, delivered, registry, cancelOk, sessVars>>

\* the fs.rm of the awaited cleanup completes
ExecRmComplete(t) ==
  /\ task[t].kind = "exec" /\ task[t].pc = "rm"
  /\ wsExists' = wsExists \ {task[t].ws}
  /\ task' = [task EXCEPT ![t].pc = "ret"]
  /\ UNCHANGED <<nextTask, proc, creates, cleanups, resp, http, delivered, registry, cancelOk, sessVars>>

\* executeStateless returns and the /execute route answers
ExecReturn(t) ==
  /\ task[t].kind = "exec" /\ task[t].pc = "ret"
  /\ task' = [task EXCEPT ![t].pc = "done"]
  /\ http' = [http EXCEPT ![t] = HttpStatus(resp[t])]
  /\ UNCHANGED <<nextTask, proc, creates, wsExists, cleanups, resp, delivered, registry, cancelOk, sessVars>>

(* ---------------------------------------------------------------------- *)
(* ClaudeExecutor.executeStreaming, ExecutionService.executeStreaming      *)
(* (stateless path) and ExecutionRegistry                                  *)
(* ---------------------------------------------------------------------- *)
RECURSIVE TrimStart(_)
\* String.prototype.trim, front
TrimStart(s) == IF s # <<>> /\ Head(s) = Blank THEN TrimStart(Tail(s)) ELSE s

RECURSIVE TrimEnd(_)
\* String.prototype.trim, back
TrimEnd(s) == IF s # <<>> /\ s[Len(s)] = Blank THEN TrimEnd(SubSeq(s, 1, Len(s) - 1)) ELSE s

Trim(s) == TrimEnd(TrimStart(s))

\* JSON.parse(line) does not throw; surrounding white space is allowed
JsonParses(line) == Trim(line) \in JsonTexts

Item(ev, line) == [ev |-> ev, line |-> line]
Terminal(ev) == Item(ev, <<>>)

LineItemsKeepBlank(line) ==
  IF JsonParses(line) THEN << Item("event", line), Item("data", line) >>
  ELSE << Item("data", line) >>

\* rl.on('line'): what the handler emits for one line of stdout
LineItems(line) ==
  IF Trim(line) = <<>> THEN <<>>
  ELSE IF JsonParses(line) THEN << Item("event", line), Item("data", line) >>
  ELSE << Item("data", line) >>

\* the 'close' handler of executeStreaming chooses the terminal event
CloseEvent(p, code) ==
  IF code = 0 THEN "end"
  ELSE IF code = NullCode \/ p.killed THEN "cancelled"
  ELSE "error"

\* handle.emitter.on('end' | 'error' | 'cancelled') in ExecutionService:
\* cleanup(workspacePath), not awaited, then re-emit on the caller's emitter.
\* (The rm is taken to complete at once: nothing else looks at the directory.)
StreamTerminal(t, ev) ==
  /\ cleanups' = [cleanups EXCEPT ![task[t].ws] = @ + 1]
  /\ wsExists' = wsExists \ {task[t].ws}
  /\ delivered' = [delivered EXCEPT ![t] = Append(@, Terminal(ev))]

\* executor.executeStreaming(...) then executionRegistry.register(...)
StreamOpen(t, spawnOk) ==
  /\ proc' = [proc EXCEPT ![t] = SpawnP(@, spawnOk)]
  /\ registry' = registry \cup {t}

StartStreamOf(req, files) ==
  /\ nextTask <= MaxExec
  /\ nextTask' = nextTask + 1
  /\ task' = [task EXCEPT ![nextTask] = [NoTask EXCEPT !.kind = "stream", !.pc = "create", !.files = files,
                                                      !.req = req]]
  /\ UNCHANGED <<proc, creates, wsExists, cleanups, resp, http, delivered, registry, cancelOk, sessVars>>

\* executeStreaming called directly
StartStream(files) == StartStreamOf(NoReq, files)

\* await workspaceManager.create() settles; on failure the catch block
\* emits 'error' on the next tick and returns an empty execution id
StreamCreateDone(t, ok, spawnOk) ==
  /\ task[t].kind = "stream" /\ task[t].pc = "create"
  /\ IF ok
     THEN /\ creates' = [creates EXCEPT ![t] = @ + 1]
          /\ wsExists' = wsExists \cup {t}
          /\ task' = [task EXCEPT ![t].ws = t, ![t].pc = IF task[t].files THEN "write" ELSE "open"]
          /\ IF task[t].files THEN UNCHANGED <<proc, registry>> ELSE StreamOpen(t, spawnOk)
          /\ UNCHANGED delivered
     ELSE /\ task' = [task EXCEPT ![t].pc = "done"]
          /\ delivered' = [delivered EXCEPT ![t] = Append(@, Terminal("error"))]
          /\ UNCHANGED <<creates, wsExists, proc, registry>>
  /\ UNCHANGED <<nextTask, cleanups, resp, http, cancelOk, sessVars>>

\* await workspaceManager.writeFiles() settles; on failure the catch block
\* awaits cleanup
StreamWriteDone(t, ok, spawnOk) ==
  /\ task[t].kind = "stream" /\ task[t].pc = "write"
  /\ IF ok
     THEN /\ task' = [task EXCEPT ![t].pc = "open"]
          /\ StreamOpen(t, spawnOk)
          /\ UNCHANGED cleanups
     ELSE /\ task' = [task EXCEPT ![t].pc = "rm"]
          /\ cleanups' = [cleanups EXCEPT ![task[t].ws] = @ + 1]
          /\ UNCHANGED <<proc, registry>>
  /\ UNCHANGED <<nextTask, creates, wsExists, resp, http, delivered, cancelOk, sessVars>>

\* the awaited cleanup of the catch block completes, 'error' is emitted on
\* the next tick
StreamRmComplete(t) ==
  /\ task[t].kind = "stream" /\ task[t].pc = "rm"
  /\ wsExists' = wsExists \ {task[t].ws}
  /\ task' = [task EXCEPT ![t].pc = "done"]
  /\ delivered' = [delivered EXCEPT ![t] = Append(@, Terminal("error"))]
  /\ UNCHANGED <<nextTask, proc, creates, cleanups, resp, http, registry, cancelOk, sessVars>>

\* the agent writes a line and rl.on('line') runs; ExecutionService
\* forwards 'data' and 'event' to the caller's emitter
StreamLine(t, line) ==
  /\ task[t].kind = "stream" /\ proc[t].st = "running"
  /\ Len(proc[t].out) < MaxLines
  /\ proc' = [proc EXCEPT ![t].out = Append(@, line),
                          ![t].sout = IF Trim(line) = <<>> THEN @ ELSE Append(@, line)]
  /\ delivered' = [delivered EXCEPT ![t] = @ \o LineItems(line)]
  /\ UNCHANGED <<nextTask, task, creates, wsExists, cleanups, resp, http, registry, cancelOk, sessVars>>

\* proc.on('close') of executeStreaming, then the 'close' listener that
\* register() installed
StreamClose(t, code, stderr) ==
  /\ task[t].kind = "stream"
  /\ \/ proc[t].st = "running" /\ CanExit(proc[t], code)
     \/ proc[t].st = "errored" /\ code = ErrnoCode /\ stderr = ""
  /\ proc' = [proc EXCEPT ![t] = ClearTimeoutP(CloseP(@, code, stderr))]
  /\ StreamTerminal(t, CloseEvent(proc[t], code))
  /\ registry' = registry \ {t}
  /\ UNCHANGED <<nextTask, task, creates, resp, http, cancelOk, sessVars>>

\* proc.on('error') of executeStreaming: the spawn failed
StreamSpawnError(t) ==
  /\ task[t].kind = "stream" /\ proc[t].st = "errpending"
  /\ proc' = [proc EXCEPT ![t] = [ClearTimeoutP(@) EXCEPT !.st = "errored"]]
  /\ StreamTerminal(t, "error")
  /\ UNCHANGED <<nextTask, task, creates, resp, http, registry, cancelOk, sessVars>>

\* the setupTimeout callback with (err) => emitter.emit('error', err)
StreamTimeout(t, ign) ==
  /\ task[t].kind = "stream" /\ proc[t].tmo = "armed" /\ proc[t].st # "errpending"
  /\ proc' = [proc EXCEPT ![t] = TimeoutP(@, ign)]
  /\ StreamTerminal(t, "error")
  /\ UNCHANGED <<nextTask, task, creates, resp, http, registry, cancelOk, sessVars>>

\* the ids a caller may pass to cancel: 0 is never registered
CancelIds == {0} \cup Tasks

\* ExecutionRegistry.cancel(executionId) returns true
CancelFound(id) == id \in registry

\* ExecutionRegistry.cancel(executionId); a call that returns false changes
\* nothing
Cancel(id, ign) ==
  /\ CancelFound(id)
  /\ proc' = [proc EXCEPT ![id] = [KillP(@, "SIGTERM", ign) EXCEPT !.cgrace = "armed"]]
  /\ delivered' = [delivered EXCEPT ![id] = Append(@, Terminal("cancelled"))]
  /\ registry' = registry \ {id}
  /\ cancelOk' = [cancelOk EXCEPT ![id] = @ + 1]
  /\ UNCHANGED <<nextTask, task, creates, wsExists, cleanups, resp, http, sessVars>>

\* the 2000 ms timer of cancel: if (!entry.process.killed) kill('SIGKILL')
CancelGraceP(p) == [(IF ~p.killed THEN KillP(p, "SIGKILL", FALSE) ELSE p) EXCEPT !.cgrace = "fired"]

CancelGraceFire(t) ==
  /\ proc[t].cgrace = "armed"
  /\ proc' = [proc EXCEPT ![t] = CancelGraceP(@)]
  /\ UNCHANGED <<nextTask, task, creates, wsExists, cleanups, resp, http, delivered, registry, cancelOk, sessVars>>

(* ---------------------------------------------------------------------- *)
(* SessionManager                                                          *)
(* ---------------------------------------------------------------------- *)
Range(f) == {f[i] : i \in DOMAIN f}

SessionLookupMiss(sid) == NoWs

\* this.sessions.get(sessionId)
SessionLookup(sid) == sessWs[sid]

\* now - session.lastActivity > this.config.idleTimeoutMs
IsIdle(t, last) == t - last > IdleTimeoutMs

\* Map.set: a new key goes to the end, an existing key keeps its place
MapSet(keys, sid) == IF sid \in Range(keys) THEN keys ELSE Append(keys, sid)

\* Map.delete
MapDelete(keys, sid) == SelectSeq(keys, LAMBDA k : k # sid)

\* what the caller of getOrCreate does with the returned session: a direct
\* call is finished, executeStreamingWithSession goes on to
\* sessionManager.executeStreaming
AfterGoc(tk, w) ==
  IF tk.kind = "goc"
  THEN [tk EXCEPT !.pc = "done", !.ws = w, !.ret = w, !.rp = removals[tk.sid], !.files = FALSE, !.key = NoKey]
  ELSE [tk EXCEPT !.pc = "srun", !.ws = w]

\* getOrCreate throws: a direct call fails; the catch block of
\* executeStreamingWithSession emits 'error' on an emitter that has no
\* listener yet, which throws, so executeStreaming rejects; the catch block
\* of executeWithSession turns the error into a response
GocThrow(tk, error) ==
  IF tk.kind = "sexec"
  THEN [NoTask EXCEPT !.kind = "sexec", !.pc = "ret", !.res = Failure(error)]
  ELSE [NoTask EXCEPT !.kind = tk.kind, !.pc = IF tk.kind = "goc" THEN "failed" ELSE "rejected"]

\* SessionManager.executeStreaming spawns the agent in the session workspace
SessSpawnP(p, ok) == [p EXCEPT !.st = IF ok THEN "running" ELSE "errpending"]

\* SessionManager.execute: spawn('claude', args, {cwd: session.workspacePath}),
\* with no timer
SessExecSpawnP(p, ok) == [p EXCEPT !.st = IF ok THEN "running" ELSE "errpending"]

\* const env = { ...process.env }; if (apiKey) env.ANTHROPIC_API_KEY = apiKey:
\* the value of ANTHROPIC_API_KEY in the environment of the child
SpawnEnv(key) == IF key # NoKey THEN key ELSE AmbientKey

\* if (session.conversationId) args.push('--resume', session.conversationId):
\* the value that follows --resume, NoToken when the flag is not passed
ResumeArg(conv) == IF conv # NoToken THEN conv ELSE NoToken

\* return session, without the refresh of lastActivity
GocReturnNoStamp(t, tk, w, spawnOk) ==
  /\ sessLast' = sessLast
  /\ task' = [task EXCEPT ![t] = AfterGoc(tk, w)]
  /\ proc' = IF tk.kind = "sstream" THEN [proc EXCEPT ![t] = SessSpawnP(@, spawnOk)]
             ELSE IF tk.kind = "sexec"
             THEN [proc EXCEPT ![t] = [SessExecSpawnP(@, spawnOk) EXCEPT !.resume = ResumeArg(sessConv[w]),
                                                                         !.env = SpawnEnv(sessKey'[w])]]
             ELSE proc

\* session.lastActivity = Date.now(); return session
GocReturn(t, tk, w, spawnOk) ==
  /\ sessLast' = [sessLast EXCEPT ![w] = now]
  /\ task' = [task EXCEPT ![t] = AfterGoc(tk, w)]
  /\ proc' = IF tk.kind = "sstream" THEN [proc EXCEPT ![t] = SessSpawnP(@, spawnOk)]
             ELSE IF tk.kind = "sexec"
             THEN [proc EXCEPT ![t] = [SessExecSpawnP(@, spawnOk) EXCEPT !.resume = ResumeArg(sessConv[w]),
                                                                         !.env = SpawnEnv(sessKey'[w])]]
             ELSE proc

\* Session ids are opaque keys that the code only compares for equality, so
\* callers take them in order: an id is used once every smaller id is in use
SidKnown(sid) == sessWs[sid] # NoWs \/ removals[sid] > 0 \/ \E t \in Tasks : task[t].sid = sid
SidInOrder(sid) == \A s \in Sids : s < sid => SidKnown(s)

\* getOrCreate up to its first await
GocEnter(t, tk, spawnOk) ==
  LET w == SessionLookup(tk.sid) IN
  IF w = NoWs
  THEN /\ task' = [task EXCEPT ![t] = [tk EXCEPT !.pc = "gcreate"]]
       /\ UNCHANGED <<proc, sessLast, sessKey>>
  ELSE /\ sessKey' = [sessKey EXCEPT ![w] = IF tk.key # NoKey THEN tk.key ELSE @]
       /\ IF tk.files
          THEN /\ task' = [task EXCEPT ![t] = [tk EXCEPT !.pc = "gwrite", !.ws = w]]
               /\ UNCHANGED <<proc, sessLast>>
          ELSE GocReturn(t, tk, w, spawnOk)

StartGetOrCreate(sid, files, key) ==
  /\ ~halted
  /\ SidInOrder(sid)
  /\ nextTask <= MaxCall
  /\ nextTask' = nextTask + 1
  /\ GocEnter(nextTask, [NoTask EXCEPT !.kind = "goc", !.sid = sid, !.files = files, !.key = key,
                                       !.ep = removals[sid]], FALSE)
  /\ UNCHANGED <<creates, wsExists, cleanups, resp, http, delivered, registry, cancelOk,
                 sessKeys, sessWs, now, timerOn, halted, removals, sessConv>>

\* await this.workspaceManager.create() settles; the new session is stored
GocCreateDone(t, ok, spawnOk) ==
  /\ ~halted
  /\ task[t].kind \in {"goc", "sstream", "sexec"} /\ task[t].pc = "gcreate"
  /\ IF ok
     THEN /\ creates' = [creates EXCEPT ![t] = @ + 1]
          /\ wsExists' = wsExists \cup {t}
          /\ sessKeys' = MapSet(sessKeys, task[t].sid)
          /\ sessWs' = [sessWs EXCEPT ![task[t].sid] = t]
          /\ sessKey' = [sessKey EXCEPT ![t] = task[t].key]
          /\ IF task[t].files
             THEN /\ task' = [task EXCEPT ![t].pc = "gwrite", ![t].ws = t]
                  /\ sessLast' = [sessLast EXCEPT ![t] = now]
                  /\ UNCHANGED proc
             ELSE GocReturn(t, task[t], t, spawnOk)
     ELSE /\ task' = [task EXCEPT ![t] = GocThrow(@, CreateError)]
          /\ UNCHANGED <<creates, wsExists, sessKeys, sessWs, sessKey, sessLast, proc>>
  /\ UNCHANGED <<nextTask, cleanups, resp, http, delivered, registry, cancelOk, now, timerOn, halted, removals, sessConv>>

\* await this.workspaceManager.writeFiles() settles; mkdir -p brings the
\* workspace directory back when it was removed meanwhile
GocWriteDone(t, ok, spawnOk) ==
  /\ ~halted
  /\ task[t].kind \in {"goc", "sstream", "sexec"} /\ task[t].pc = "gwrite"
  /\ UNCHANGED <<nextTask, creates, cleanups, resp, http, delivered, registry, cancelOk,
                 sessKeys, sessWs, sessKey, now, timerOn, halted, removals, sessConv>>
  /\ IF ok
     THEN /\ wsExists' = wsExists \cup {task[t].ws}
          /\ GocReturn(t, task[t], task[t].ws, spawnOk)
     ELSE /\ task' = [task EXCEPT ![t] = GocThrow(@, WriteError)]
          /\ UNCHANGED <<wsExists, sessLast, proc>>

RECURSIVE DropAbsent(_, _)
\* delete(id) of an id that is no longer in the map returns at once
DropAbsent(map, list) ==
  IF list = <<>> THEN <<>>
  ELSE IF map[Head(list)] = NoWs THEN DropAbsent(map, Tail(list))
  ELSE list

\* delete(sessionId) up to its await: cleanup(session.workspacePath)
BeginCleanup(t, tk, sid, w) ==
  /\ cleanups' = [cleanups EXCEPT ![w] = @ + 1]
  /\ task' = [task EXCEPT ![t] = [tk EXCEPT !.pc = "drm", !.sid = sid, !.ws = w, !.touched = @ \cup {w}]]

\* the second loop of cleanupIdleSessions
SweepContinue(t, tk, map) ==
  LET rest == DropAbsent(map, tk.todo) IN
  IF rest = <<>>
  THEN /\ task' = [task EXCEPT ![t] = [tk EXCEPT !.pc = "done", !.todo = <<>>, !.sid = NoSid, !.ws = NoWs]]
       /\ UNCHANGED cleanups
  ELSE BeginCleanup(t, [tk EXCEPT !.todo = Tail(rest)], Head(rest), map[Head(rest)])

\* the loop of shutdown over the live key iterator: every key it has
\* yielded is gone when it resumes, so it yields the first key of the map;
\* then the SIGTERM handler calls process.exit(0)
ShutdownContinue(t, tk, keys, map) ==
  IF keys = <<>>
  THEN /\ task' = [task EXCEPT ![t] = [NoTask EXCEPT !.kind = "shutdown", !.pc = "done", !.stale = tk.stale]]
       /\ halted' = TRUE
       /\ UNCHANGED cleanups
  ELSE /\ BeginCleanup(t, tk, Head(keys), map[Head(keys)])
       /\ UNCHANGED halted

\* delete(sessionId) called directly; for an id that is not in the map it
\* returns without doing anything
StartDelete(sid) ==
  /\ ~halted
  /\ nextTask <= MaxCall
  /\ sessWs[sid] # NoWs
  /\ nextTask' = nextTask + 1
  /\ BeginCleanup(nextTask, [NoTask EXCEPT !.kind = "delete"], sid, sessWs[sid])
  /\ UNCHANGED <<proc, creates, wsExists, resp, http, delivered, registry, cancelOk, sessVars>>

\* the interval fires: cleanupIdleSessions up to its first await; a sweep
\* that finds no stale session does nothing
StaleKeys == SelectSeq(sessKeys, LAMBDA k : IsIdle(now, sessLast[sessWs[k]]))

StartSweep ==
  /\ ~halted
  /\ timerOn
  /\ StaleKeys # <<>>
  /\ nextTask <= MaxCall
  /\ nextTask' = nextTask + 1
  /\ SweepContinue(nextTask,
                   [NoTask EXCEPT !.kind = "sweep", !.todo = StaleKeys,
                                  !.stale = {sessWs[k] : k \in Range(StaleKeys)},
                                  !.fresh = {sessWs[k] : k \in Range(sessKeys) \ Range(StaleKeys)}],
                   sessWs)
  /\ UNCHANGED <<proc, creates, wsExists, resp, http, delivered, registry, cancelOk, sessVars>>

\* SIGTERM: shutdown() up to its first await
StartShutdown ==
  /\ ~halted
  /\ \A t \in Tasks : task[t].kind # "shutdown"
  /\ nextTask <= MaxCall
  /\ nextTask' = nextTask + 1
  /\ timerOn' = FALSE
  /\ ShutdownContinue(nextTask,
                      [NoTask EXCEPT !.kind = "shutdown", !.stale = {sessWs[k] : k \in Range(sessKeys)}],
                      sessKeys, sessWs)
  /\ UNCHANGED <<proc, creates, wsExists, resp, http, delivered, registry, cancelOk,
                 sessKeys, sessWs, sessLast, sessKey, now, removals, sessConv>>

\* the fs.rm started by delete completes
DelRmDone(t) ==
  /\ ~halted
  /\ task[t].pc = "drm"
  /\ wsExists' = wsExists \ {task[t].ws}
  /\ task' = [task EXCEPT ![t].pc = "dcont"]
  /\ UNCHANGED <<nextTask, proc, creates, cleanups, resp, http, delivered, registry, cancelOk, sessVars>>

\* delete resumes: this.sessions.delete(sessionId); then its caller goes on
DelResume(t) ==
  /\ ~halted
  /\ task[t].pc = "dcont"
  /\ LET sid == task[t].sid
         keys == MapDelete(sessKeys, sid)
         map == [sessWs EXCEPT ![sid] = NoWs]
         tk == [task[t] EXCEPT !.touched = @ \cup ({sessWs[sid]} \ {NoWs})]
     IN /\ sessKeys' = keys
        /\ sessWs' = map
        /\ removals' = [removals EXCEPT ![sid] = IF sessWs[sid] # NoWs THEN @ + 1 ELSE @]
        /\ CASE tk.kind = "delete" ->
                  /\ task' = [task EXCEPT ![t] = [NoTask EXCEPT !.kind = "delete", !.pc = "done"]]
                  /\ UNCHANGED <<cleanups, halted>>
             [] tk.kind = "sweep" ->
                  /\ SweepContinue(t, tk, map)
                  /\ UNCHANGED halted
             [] tk.kind = "shutdown" ->
                  ShutdownContinue(t, tk, keys, map)
  /\ UNCHANGED <<nextTask, proc, creates, wsExists, resp, http, delivered, registry, cancelOk,
                 sessLast, sessKey, now, timerOn, sessConv>>

\* time passes
Tick ==
  /\ ~halted
  /\ now < MaxTime
  /\ now' = now + 1
  /\ UNCHANGED <<nextTask, task, proc, creates, wsExists, cleanups, resp, http, delivered, registry, cancelOk,
                 sessKeys, sessWs, sessLast, sessKey, timerOn, halted, removals, sessConv>>

(* ---------------------------------------------------------------------- *)
(* ExecutionService.executeStreamingWithSession                            *)
(* ---------------------------------------------------------------------- *)
\* executeStreaming with a sessionId, up to await import('crypto')
StartSessStreamOf(req, sid, files, key) ==
  /\ SidInOrder(sid)
  /\ nextTask <= MaxExec
  /\ nextTask' = nextTask + 1
  /\ task' = [task EXCEPT ![nextTask] = [NoTask EXCEPT !.kind = "sstream", !.pc = "import", !.sid = sid,
                                                      !.files = files, !.key = key, !.ep = removals[sid],
                                                      !.req = req]]
  /\ UNCHANGED <<proc, creates, wsExists, cleanups, resp, http, delivered, registry, cancelOk, sessVars>>

StartSessStream(sid, files, key) == StartSessStreamOf(NoReq, sid, files, key)

\* the import settles: randomUUID(), then getOrCreate up to its first await
SessStreamImported(t, spawnOk) ==
  /\ task[t].kind = "sstream" /\ task[t].pc = "import"
  /\ GocEnter(t, task[t], spawnOk)
  /\ UNCHANGED <<nextTask, creates, wsExists, cleanups, resp, http, delivered, registry, cancelOk,
                 sessKeys, sessWs, now, timerOn, halted, removals, sessConv>>

\* if (result.process) executionRegistry.register(executionId, result.process, ...)
SessRegister(reg, t, withProc) == IF withProc THEN reg \cup {t} ELSE reg

\* the session's agent closes and sessionManager.executeStreaming settles:
\* on code 0 the run resolves, the process it returns is registered and
\* 'end' is emitted on the emitter the caller has not received yet; on any
\* other code the run rejects and the catch block's emit('error') throws.
\* The events of the run go to the same listener-less emitter.
SessStreamClose(t, code, stderr, withProc) ==
  /\ task[t].kind = "sstream" /\ task[t].pc = "srun"
  /\ proc[t].st = "running" /\ CanExit(proc[t], code)
  /\ proc' = [proc EXCEPT ![t] = CloseP(@, code, stderr)]
  /\ IF code = 0
     THEN /\ sessLast' = [sessLast EXCEPT ![task[t].ws] = now]
          /\ registry' = SessRegister(registry, t, withProc)
          /\ task' = [task EXCEPT ![t].pc = "open"]
     ELSE /\ task' = [task EXCEPT ![t].pc = "rejected"]
          /\ UNCHANGED <<sessLast, registry>>
  /\ UNCHANGED <<nextTask, creates, wsExists, cleanups, resp, http, delivered, cancelOk,
                 sessKeys, sessWs, sessKey, now, timerOn, halted, removals, sessConv>>

\* the spawn of the session's agent failed: the run rejects
SessStreamSpawnError(t) ==
  /\ task[t].kind = "sstream" /\ task[t].pc = "srun"
  /\ proc[t].st = "errpending"
  /\ proc' = [proc EXCEPT ![t].st = "errored"]
  /\ task' = [task EXCEPT ![t].pc = "rejected"]
  /\ UNCHANGED <<nextTask, creates, wsExists, cleanups, resp, http, delivered, registry, cancelOk, sessVars>>

(* ---------------------------------------------------------------------- *)
(* ExecutionService.executeWithSession and SessionManager.execute          *)
(* ---------------------------------------------------------------------- *)
\* execute with a sessionId: executeWithSession up to the first await of
\* getOrCreate
SessExecuteCall(req, sid, files, key, spawnOk) ==
  /\ SidInOrder(sid)
  /\ nextTask' = nextTask + 1
  /\ GocEnter(nextTask, [NoTask EXCEPT !.kind = "sexec", !.sid = sid, !.files = files, !.key = key,
                                       !.ep = removals[sid], !.req = req], spawnOk)
  /\ UNCHANGED <<creates, wsExists, cleanups, resp, http, delivered, registry, cancelOk,
                 sessKeys, sessWs, now, timerOn, halted, removals, sessConv>>

StartSessExecuteOf(req, sid, files, key, spawnOk) ==
  /\ nextTask <= MaxBuf
  /\ SessExecuteCall(req, sid, files, key, spawnOk)

StartSessExecute(sid, files, key, spawnOk) == StartSessExecuteOf(NoReq, sid, files, key, spawnOk)

\* claude.stdout.on('data'): stdout += chunk
SessExecData(t) ==
  /\ task[t].kind = "sexec" /\ proc[t].st = "running"
  /\ Len(proc[t].out) < MaxLines
  /\ \E chunk \in ChunkSet(Len(proc[t].out)) :
       proc' = [proc EXCEPT ![t].out = Append(@, chunk), ![t].sout = Append(@, chunk)]
  /\ UNCHANGED <<nextTask, task, creates, wsExists, cleanups, resp, http, delivered, registry, cancelOk, sessVars>>

RECURSIVE Flat(_)
\* stdout += chunk, over the chunks received
Flat(chunks) == IF chunks = <<>> THEN <<>> ELSE Head(chunks) \o Flat(Tail(chunks))

\* JSON.parse(stdout) returns an object: the text is "{", members, "}"
ParsesAsObject(text) ==
  /\ Len(text) >= 2 /\ text[1] = "{" /\ text[Len(text)] = "}"
  /\ \A i \in 2..(Len(text) - 1) : text[i] \in ConvMembers \cup SessMembers

\* the value of the last member of the text that is in members, NoToken
\* when there is none
MemberValue(text, members) ==
  LET at == {i \in 1..Len(text) : text[i] \in members} IN
  IF at = {} THEN NoToken ELSE text[CHOOSE i \in at : \A j \in at : j <= i]

\* the close handler's token extraction that reads conversation_id only
ExtractTokenConvOnly(conv, stdout) ==
  IF ParsesAsObject(stdout) /\ MemberValue(stdout, ConvMembers) # NoToken
  THEN MemberValue(stdout, ConvMembers)
  ELSE conv

\* the try block of the close handler: session.conversationId after it
ExtractToken(conv, stdout) ==
  IF ParsesAsObject(stdout)
  THEN IF MemberValue(stdout, ConvMembers) # NoToken THEN MemberValue(stdout, ConvMembers)
       ELSE IF MemberValue(stdout, SessMembers) # NoToken THEN MemberValue(stdout, SessMembers)
       ELSE conv
  ELSE conv

SessCloseResultAlwaysOk(p, code, stderr) == Success(p.sout)

\* claude.on('close') in SessionManager.execute: resolve(stdout) on code 0,
\* reject(new Error(stderr || ...)) otherwise; executeWithSession wraps either
SessCloseResult(p, code, stderr) ==
  IF code = 0 THEN Success(p.sout) ELSE Failure(CloseError(stderr, code))

\* claude.on('close'); after a failed spawn 'close' may follow 'error', when
\* the promise is already settled
SessExecClose(t, code, stderr) ==
  /\ task[t].kind = "sexec"
  /\ \/ proc[t].st = "running" /\ CanExit(proc[t], code)
     \/ proc[t].st = "errored" /\ code = ErrnoCode /\ stderr = ""
  /\ proc' = [proc EXCEPT ![t] = CloseP(@, code, stderr)]
  /\ task' = IF task[t].pc = "srun"
             THEN [task EXCEPT ![t].pc = "ret", ![t].res = SessCloseResult(proc[t], code, stderr)]
             ELSE task
  /\ sessLast' = IF task[t].pc = "srun" /\ code = 0 THEN [sessLast EXCEPT ![task[t].ws] = now] ELSE sessLast
  /\ sessConv' = IF task[t].pc = "srun" /\ code = 0
                 THEN [sessConv EXCEPT ![task[t].ws] = ExtractToken(@, Flat(proc[t].sout))]
                 ELSE sessConv
  /\ UNCHANGED <<nextTask, creates, wsExists, cleanups, resp, http, delivered, registry, cancelOk,
                 sessKeys, sessWs, sessKey, now, timerOn, halted, removals>>

\* claude.on('error'): the spawn failed, the promise rejects
SessExecSpawnError(t) ==
  /\ task[t].kind = "sexec" /\ task[t].pc = "srun"
  /\ proc[t].st = "errpending"
  /\ proc' = [proc EXCEPT ![t].st = "errored"]
  /\ task' = [task EXCEPT ![t].pc = "ret", ![t].res = Failure(SpawnError)]
  /\ UNCHANGED <<nextTask, creates, wsExists, cleanups, resp, http, delivered, registry, cancelOk, sessVars>>

\* execute returns its response and the /execute route answers
SessExecReturn(t) ==
  /\ task[t].kind = "sexec" /\ task[t].pc = "ret"
  /\ resp' = [resp EXCEPT ![t] = task[t].res]
  /\ http' = [http EXCEPT ![t] = HttpStatus(task[t].res)]
  /\ task' = [task EXCEPT ![t].pc = "done", ![t].res = NoResp]
  /\ UNCHANGED <<nextTask, proc, creates, wsExists, cleanups, delivered, registry, cancelOk, sessVars>>

(* ---------------------------------------------------------------------- *)
(* Properties of the buffered stateless path                               *)
(* ---------------------------------------------------------------------- *)
\* C1: a buffered request without sessionId creates exactly one workspace
\* and cleans it up exactly once, before the response is returned, on every
\* outcome (exit 0, nonzero exit, spawn error, timeout, writeFiles failure);
\* when create itself fails nothing is cleaned up and nothing remains.
C1_StatelessWorkspaceOnce ==
  \A t \in Tasks : task[t].kind = "exec" =>
    /\ creates[t] <= 1
    /\ cleanups[t] <= creates[t]
    /\ task[t].pc \in {"write", "run", "rm"} => creates[t] = 1 /\ task[t].ws = t
    /\ task[t].pc \in {"ret", "done"} =>
         /\ creates[t] = (IF resp[t].error = CreateError THEN 0 ELSE 1)
         /\ cleanups[t] = creates[t]
         /\ t \notin wsExists

C1_Witness ==
  \E t \in Tasks :
    /\ task[t].kind = "exec" /\ task[t].pc = "done"
    /\ resp[t].error = TimeoutError
    /\ creates[t] = 1 /\ cleanups[t] = 1 /\ t \notin wsExists

\* C9: when the agent of a buffered stateless request exits before the
\* timeout, exit code 0 gives {success: true, output: entire stdout} and
\* HTTP 200; a nonzero code gives {success: false, error: stderr} when stderr
\* is non-empty and a generic message carrying the exit code when it is
\* empty, both with HTTP 500.
C9_BufferedResponse ==
  \A t \in Tasks :
    ( /\ task[t].kind = "exec" /\ task[t].pc = "done"
      /\ proc[t].st = "closed" /\ proc[t].tmo = "cleared" /\ proc[t].code \in ExitCodes )
    => IF proc[t].code = 0
       THEN /\ resp[t].success /\ resp[t].output = proc[t].out
            /\ http[t] = 200
       ELSE /\ ~resp[t].success
            /\ http[t] = 500
            /\ IF proc[t].stderr = ""
               THEN resp[t].error.text = "Claude Code exited with code" /\ resp[t].error.code = proc[t].code
               ELSE resp[t].error.text = proc[t].stderr

C9_Witness ==
  \E t \in Tasks :
    /\ task[t].kind = "exec" /\ task[t].pc = "done"
    /\ proc[t].st = "closed" /\ proc[t].tmo = "cleared"
    /\ proc[t].code = 1 /\ proc[t].stderr = ""
    /\ Len(proc[t].out) = 2
    /\ http[t] = 500

\* C10: when the timeout expires the process is sent SIGTERM, and a process
\* still alive when the 5 s grace window ends is sent SIGKILL.
C10_TimeoutEscalates ==
  \A t \in Tasks :
    /\ proc[t].tmo = "fired" => "SIGTERM" \in proc[t].sig
    /\ (proc[t].grace = "fired" /\ proc[t].st = "running") => "SIGKILL" \in proc[t].sig

(* ---------------------------------------------------------------------- *)
(* Specifications                                                          *)
(* ---------------------------------------------------------------------- *)
Init ==
  /\ nextTask = 1
  /\ task = [t \in Tasks |-> NoTask]
  /\ proc = [t \in Tasks |-> NoProc]
  /\ creates = [t \in Tasks |-> 0]
  /\ wsExists = {}
  /\ cleanups = [t \in Tasks |-> 0]
  /\ resp = [t \in Tasks |-> NoResp]
  /\ http = [t \in Tasks |-> 0]
  /\ delivered = [t \in Tasks |-> <<>>]
  /\ registry = {}
  /\ cancelOk = [t \in Tasks |-> 0]
  /\ sessKeys = <<>>
  /\ sessWs = [s \in Sids |-> NoWs]
  /\ sessLast = [t \in Tasks |-> 0]
  /\ sessKey = [t \in Tasks |-> NoKey]
  /\ now = 0
  /\ timerOn = TRUE
  /\ halted = FALSE
  /\ removals = [s \in Sids |-> 0]
  /\ sessConv = [t \in Tasks |-> NoToken]

NextBuffered ==
  \/ \E files \in BOOLEAN : StartExecute(files)
  \/ \E t \in Tasks, ok, spawnOk \in BOOLEAN : ExecCreateDone(t, ok, spawnOk)
  \/ \E t \in Tasks, ok, spawnOk \in BOOLEAN : ExecWriteDone(t, ok, spawnOk)
  \/ \E t \in Tasks : BufData(t)
  \/ \E t \in Tasks, code \in ExitCodes \cup {NullCode, ErrnoCode}, stderr \in StderrSet : BufClose(t, code, stderr)
  \/ \E t \in Tasks : BufSpawnError(t)
  \/ \E t \in Tasks, ign \in BOOLEAN : BufTimeout(t, ign)
  \/ \E t \in Tasks : GraceFire(t)
  \/ \E t \in Tasks : ExecRmComplete(t)
  \/ \E t \in Tasks : ExecReturn(t)

SpecBuffered == Init /\ [][NextBuffered]_vars

NextStream ==
  \/ \E files \in BOOLEAN : StartStream(files)
  \/ \E t \in Tasks, ok, spawnOk \in BOOLEAN : StreamCreateDone(t, ok, spawnOk)
  \/ \E t \in Tasks, ok, spawnOk \in BOOLEAN : StreamWriteDone(t, ok, spawnOk)
  \/ \E t \in Tasks : StreamRmComplete(t)
  \/ \E t \in Tasks, code \in ExitCodes \cup {NullCode, ErrnoCode}, stderr \in StderrSet : StreamClose(t, code, stderr)
  \/ \E t \in Tasks : StreamSpawnError(t)
  \/ \E t \in Tasks, ign \in BOOLEAN : StreamTimeout(t, ign)
  \/ \E t \in Tasks : GraceFire(t)
  \/ \E id \in CancelIds, ign \in BOOLEAN : Cancel(id, ign)
  \/ \E t \in Tasks : CancelGraceFire(t)
  \/ \E sid \in Sids, files \in BOOLEAN, key \in KeySet : StartSessStream(sid, files, key)
  \/ \E t \in Tasks, spawnOk \in BOOLEAN : SessStreamImported(t, spawnOk)
  \/ \E t \in Tasks, ok, spawnOk \in BOOLEAN : GocCreateDone(t, ok, spawnOk)
  \/ \E t \in Tasks, ok, spawnOk \in BOOLEAN : GocWriteDone(t, ok, spawnOk)
  \/ \E t \in Tasks, code \in ExitCodes, stderr \in StderrSet, withProc \in BOOLEAN :
        SessStreamClose(t, code, stderr, withProc)
  \/ \E t \in Tasks : SessStreamSpawnError(t)

SpecStream == Init /\ [][NextStream]_vars

NextSession ==
  \/ \E sid \in Sids, files \in BOOLEAN, key \in KeySet : StartGetOrCreate(sid, files, key)
  \/ \E t \in Tasks, ok \in BOOLEAN : GocCreateDone(t, ok, FALSE)
  \/ \E t \in Tasks, ok \in BOOLEAN : GocWriteDone(t, ok, FALSE)
  \/ \E sid \in Sids : StartDelete(sid)
  \/ StartSweep
  \/ StartShutdown
  \/ \E t \in Tasks : DelRmDone(t)
  \/ \E t \in Tasks : DelResume(t)
  \/ Tick

SpecSession == Init /\ [][NextSession]_vars

\* getOrCreate calls that do not overlap: a call starts only when no other
\* call is between its lookup and its return
GocInFlight == \E t \in Tasks : task[t].kind = "goc" /\ task[t].pc \in {"gcreate", "gwrite"}

StartSerialGetOrCreate(sid, files, key) ==
  /\ ~GocInFlight
  /\ StartGetOrCreate(sid, files, key)

NextSerial ==
  \/ \E sid \in Sids, files \in BOOLEAN, key \in KeySet : StartSerialGetOrCreate(sid, files, key)
  \/ \E t \in Tasks, ok \in BOOLEAN : GocCreateDone(t, ok, FALSE)
  \/ \E t \in Tasks, ok \in BOOLEAN : GocWriteDone(t, ok, FALSE)
  \/ \E sid \in Sids : StartDelete(sid)
  \/ StartSweep
  \/ StartShutdown
  \/ \E t \in Tasks : DelRmDone(t)
  \/ \E t \in Tasks : DelResume(t)
  \/ Tick

SpecSerial == Init /\ [][NextSerial]_vars

\* one streaming execution whose agent writes lines
StartSingleStream(files) ==
  /\ nextTask = 1
  /\ StartStream(files)

NextLines ==
  \/ \E files \in BOOLEAN : StartSingleStream(files)
  \/ \E t \in Tasks, ok, spawnOk \in BOOLEAN : StreamCreateDone(t, ok, spawnOk)
  \/ \E t \in Tasks, ok, spawnOk \in BOOLEAN : StreamWriteDone(t, ok, spawnOk)
  \/ \E t \in Tasks : StreamRmComplete(t)
  \/ \E t \in Tasks, line \in LineSet : StreamLine(t, line)
  \/ \E t \in Tasks, code \in ExitCodes \cup {NullCode, ErrnoCode}, stderr \in StderrSet : StreamClose(t, code, stderr)
  \/ \E t \in Tasks : StreamSpawnError(t)
  \/ \E t \in Tasks, ign \in BOOLEAN : StreamTimeout(t, ign)
  \/ \E t \in Tasks : GraceFire(t)
  \/ \E id \in CancelIds, ign \in BOOLEAN : Cancel(id, ign)
  \/ \E t \in Tasks : CancelGraceFire(t)

SpecLines == Init /\ [][NextLines]_vars

(* ---------------------------------------------------------------------- *)
(* Properties of the streaming paths and of the registry                   *)
(* ---------------------------------------------------------------------- *)
StreamOver(t) == proc[t].st = "closed" \/ task[t].pc = "done"

\* C2: the workspace of a stateless streaming request is cleaned up exactly
\* once: cleanup is never invoked a second time, and once the stream is over
\* cleanup was invoked for every workspace created and none is left on disk.
C2_StreamCleanupOnce ==
  \A t \in Tasks : task[t].kind = "stream" =>
    /\ cleanups[t] <= 1
    /\ StreamOver(t) => cleanups[t] = creates[t] /\ t \notin wsExists

\* C5: once cancel has returned true for a streaming execution, its stream
\* has received 'cancelled' and has received no 'error', before or after;
\* cancel returns true at most once per id.
C5_CancelledNeverError ==
  \A t \in Tasks : task[t].kind = "stream" =>
    /\ cancelOk[t] <= 1
    /\ cancelOk[t] >= 1 => /\ Terminal("cancelled") \in Range(delivered[t])
                           /\ Terminal("error") \notin Range(delivered[t])

\* C6: cancel never takes effect (returns true, signals, emits, arms its
\* timer, changes the registry) for an id that was never registered or for
\* an execution whose process has already exited, on either streaming path.
C6_CancelFrame ==
  [][\A id \in Tasks : cancelOk'[id] # cancelOk[id] => task[id].pc = "open" /\ proc[id].st # "closed"]_vars

Lines(items) == [i \in 1..Len(items) |-> items[i].line]
OutputItems(t) == SelectSeq(delivered[t], LAMBDA i : i.ev \in {"data", "event"})

GocPairs == {pr \in Tasks \X Tasks :
               /\ pr[1] < pr[2]
               /\ task[pr[1]].kind = "goc" /\ task[pr[2]].kind = "goc"
               /\ task[pr[1]].sid = task[pr[2]].sid
               /\ task[pr[1]].pc = "done" /\ task[pr[2]].pc = "done"}

\* C3: two getOrCreate calls for the same id, started while the id was not
\* in the map and with no removal of that id since, have created one
\* workspace between them and have returned the same workspace.
C3_ConcurrentCreateOnce ==
  \A pr \in GocPairs :
    task[pr[1]].ep = removals[task[pr[1]].sid] /\ task[pr[2]].ep = removals[task[pr[1]].sid] =>
      /\ creates[pr[1]] + creates[pr[2]] <= 1
      /\ task[pr[1]].ret = task[pr[2]].ret

\* C4: of two getOrCreate calls for the same id that do not overlap, with no
\* removal of that id from the start of the earlier to the return of the
\* later, the later returns the workspace the earlier returned and creates
\* none.
C4_SameWorkspaceUntilRemoved ==
  \A pr \in GocPairs :
    task[pr[1]].ep = task[pr[2]].rp =>
      /\ task[pr[2]].ret = task[pr[1]].ret
      /\ creates[pr[2]] = 0

C4_Witness ==
  \E pr \in GocPairs :
    /\ task[pr[1]].ep = task[pr[2]].rp
    /\ creates[pr[1]] = 1
    /\ creates[pr[2]] = 0
    /\ task[pr[2]].ret = pr[1]

\* C7: at the step that finishes a sweep, every session that was stale when
\* the sweep started is out of the map, cleanup was invoked on its workspace
\* and the workspace is gone from disk; the sweep has neither cleaned nor
\* unmapped a session that was fresh when it started.
C7_SweepRemovesStaleKeepsFresh ==
  [][\A t \in Tasks :
       task'[t].kind = "sweep" /\ task'[t].pc = "done" /\ task[t].pc # "done" =>
         /\ \A w \in task'[t].stale :
              /\ w \notin Range(sessWs')
              /\ cleanups'[w] >= 1
              /\ w \notin wsExists'
         /\ task'[t].fresh \cap task'[t].touched = {}]_vars

(* ---------------------------------------------------------------------- *)
(* Properties of cancellation, timeout and terminal events                 *)
(* ---------------------------------------------------------------------- *)
\* C11: a running process whose execution was cancelled has been sent
\* SIGTERM, and one that is still running when the 2 s timer of cancel has
\* fired has been sent SIGKILL.
C11_CancelEscalates ==
  \A t \in Tasks :
    /\ cancelOk[t] >= 1 /\ proc[t].st = "running" => "SIGTERM" \in proc[t].sig
    /\ proc[t].cgrace = "fired" /\ proc[t].st = "running" => "SIGKILL" \in proc[t].sig

\* C12: a stateless streaming execution whose timeout has expired has
\* received no 'error', and once its process has closed without exiting on
\* its own with code 0 it has received 'cancelled'.
C12_TimeoutIsCancelled ==
  \A t \in Tasks : task[t].kind = "stream" /\ proc[t].tmo = "fired" =>
    /\ Terminal("error") \notin Range(delivered[t])
    /\ proc[t].st = "closed" /\ proc[t].code # 0 => Terminal("cancelled") \in Range(delivered[t])

TerminalItems(t) == SelectSeq(delivered[t], LAMBDA i : i.ev \in {"end", "error", "cancelled"})

\* the emitter of execution t is with its caller and nothing more will be
\* emitted on it: the process has closed, or it was never spawned
StreamFinished(t) ==
  /\ task[t].kind \in {"stream", "sstream"}
  /\ \/ task[t].pc = "done"
     \/ task[t].pc = "open" /\ proc[t].st = "closed" /\ proc[t].cgrace # "armed"

\* C13: a stream handed to a caller never delivers a second terminal event,
\* and a stream that is finished has delivered one.
C13_OneTerminalEvent ==
  \A t \in Tasks : task[t].kind \in {"stream", "sstream"} =>
    /\ Len(TerminalItems(t)) <= 1
    /\ StreamFinished(t) => Len(TerminalItems(t)) = 1

\* C17: once shutdown has completed, the sweep timer is stopped, the session
\* map is empty and the workspace of every session that was in the map when
\* shutdown was called is gone from disk.
C17_ShutdownLeavesNothing ==
  \A t \in Tasks : task[t].kind = "shutdown" /\ task[t].pc = "done" =>
    /\ ~timerOn
    /\ sessKeys = <<>>
    /\ \A w \in task[t].stale : w \notin wsExists

\* C18: every entry of the registry refers to a process that has not closed.
C18_RegistryOnlyLiveProcesses ==
  \A id \in registry : proc[id].st # "closed"

\* C19: every streaming execution whose process is running and that was not
\* cancelled is in the registry.
C19_RunningIsRegistered ==
  \A t \in Tasks :
    task[t].kind \in {"stream", "sstream"} /\ proc[t].st = "running" /\ cancelOk[t] = 0 => t \in registry

(* ---------------------------------------------------------------------- *)
(* Buffered execution, stateless and session-scoped                        *)
(* ---------------------------------------------------------------------- *)
NextExecute ==
  \/ \E files \in BOOLEAN : StartExecute(files)
  \/ \E t \in Tasks, ok, spawnOk \in BOOLEAN : ExecCreateDone(t, ok, spawnOk)
  \/ \E t \in Tasks, ok, spawnOk \in BOOLEAN : ExecWriteDone(t, ok, spawnOk)
  \/ \E t \in Tasks : BufData(t)
  \/ \E t \in Tasks, code \in ExitCodes \cup {NullCode, ErrnoCode}, stderr \in StderrSet : BufClose(t, code, stderr)
  \/ \E t \in Tasks : BufSpawnError(t)
  \/ \E t \in Tasks, ign \in BOOLEAN : BufTimeout(t, ign)
  \/ \E t \in Tasks : GraceFire(t)
  \/ \E t \in Tasks : ExecRmComplete(t)
  \/ \E t \in Tasks : ExecReturn(t)
  \/ \E sid \in Sids, files \in BOOLEAN, key \in KeySet, spawnOk \in BOOLEAN : StartSessExecute(sid, files, key, spawnOk)
  \/ \E t \in Tasks, ok, spawnOk \in BOOLEAN : GocCreateDone(t, ok, spawnOk)
  \/ \E t \in Tasks, ok, spawnOk \in BOOLEAN : GocWriteDone(t, ok, spawnOk)
  \/ \E t \in Tasks : SessExecData(t)
  \/ \E t \in Tasks, code \in ExitCodes \cup {ErrnoCode}, stderr \in StderrSet : SessExecClose(t, code, stderr)
  \/ \E t \in Tasks : SessExecSpawnError(t)
  \/ \E t \in Tasks : SessExecReturn(t)

SpecExecute == Init /\ [][NextExecute]_vars

ErrorTexts == {CreateError.text, WriteError.text, SpawnError.text, TimeoutError.text,
               "Claude Code exited with code"} \cup (StderrSet \ {""})

\* C15: execute never rejects; the response it resolves to has success
\* true only when the agent exited with code 0 (and no timeout had fired),
\* and otherwise success false with an error string.
C15_ExecuteNeverRejects ==
  \A t \in Tasks : task[t].kind \in {"exec", "sexec"} =>
    /\ task[t].pc # "rejected"
    /\ task[t].pc = "done" =>
         IF resp[t].success
         THEN proc[t].st = "closed" /\ proc[t].code = 0 /\ proc[t].tmo # "fired"
         ELSE resp[t].error.text \in ErrorTexts

C15_Witness ==
  \E t \in Tasks :
    /\ task[t].kind = "sexec" /\ task[t].pc = "done"
    /\ proc[t].st = "closed" /\ proc[t].code = 1 /\ proc[t].stderr = ""
    /\ ~resp[t].success /\ resp[t].error = CloseError("", 1)

\* C20: every process that was spawned had a timeout timer armed at its
\* spawn.
C20_EverySpawnHasTimer ==
  \A t \in Tasks : proc[t].st # "none" => proc[t].tmo # "none"

(* ---------------------------------------------------------------------- *)
(* WorkspaceManager.writeFiles                                             *)
(* ---------------------------------------------------------------------- *)
\* paths are sequences of segments; "" is the empty segment that a leading
\* '/' leaves in front of an absolute path
WsRoot == <<"base", "ws">>
FilePathSet == { <<"a">>, <<"d", "a">>, <<"d", "..", "a">>, <<"..", "x">>, <<"", "etc">> }

RECURSIVE NormalizeOnto(_, _)
\* path.normalize of an absolute path: '.' and empty segments are dropped,
\* '..' removes the segment before it and is dropped at the root
NormalizeOnto(stack, segs) ==
  IF segs = <<>> THEN stack
  ELSE LET h == Head(segs) IN
       IF h = "" \/ h = "." THEN NormalizeOnto(stack, Tail(segs))
       ELSE IF h = ".." THEN NormalizeOnto(IF stack = <<>> THEN stack ELSE SubSeq(stack, 1, Len(stack) - 1),
                                           Tail(segs))
       ELSE NormalizeOnto(Append(stack, h), Tail(segs))

\* path.join(workspacePath, file.path)
PathJoin(a, b) == NormalizeOnto(<<>>, a \o b)

RECURSIVE PathSeqs(_)
PathSeqs(n) == IF n = 0 THEN {<<>>} ELSE {<<>>} \cup {<<p>> \o r : p \in FilePathSet, r \in PathSeqs(n - 1)}

\* writeFiles(workspacePath, files) is called
StartWriteFiles(files) ==
  /\ nextTask = 1
  /\ nextTask' = nextTask + 1
  /\ task' = [task EXCEPT ![nextTask] = [NoTask EXCEPT !.kind = "wfiles",
                                                      !.pc = IF files = <<>> THEN "done" ELSE "wfile",
                                                      !.paths = files]]
  /\ UNCHANGED <<proc, creates, wsExists, cleanups, resp, http, delivered, registry, cancelOk, sessVars>>

\* one turn of the loop: mkdir(dirname(filePath), recursive) and
\* writeFile(filePath) settle; a failure ends the call
WriteFileStep(t, ok) ==
  /\ task[t].kind = "wfiles" /\ task[t].pc = "wfile"
  /\ task' = IF ok
             THEN [task EXCEPT ![t].written = @ \cup {PathJoin(WsRoot, Head(task[t].paths))},
                               ![t].paths = Tail(@),
                               ![t].pc = IF Tail(task[t].paths) = <<>> THEN "done" ELSE "wfile"]
             ELSE [task EXCEPT ![t].pc = "failed", ![t].paths = <<>>]
  /\ UNCHANGED <<nextTask, proc, creates, wsExists, cleanups, resp, http, delivered, registry, cancelOk, sessVars>>

NextFiles ==
  \/ \E files \in PathSeqs(MaxFiles) : StartWriteFiles(files)
  \/ \E t \in Tasks, ok \in BOOLEAN : WriteFileStep(t, ok)

SpecFiles == Init /\ [][NextFiles]_vars

InsideRoot(p) == Len(p) >= Len(WsRoot) /\ SubSeq(p, 1, Len(WsRoot)) = WsRoot

\* C16: every path that writeFiles has written lies inside the workspace
\* root.
C16_WritesStayInside ==
  \A t \in Tasks : \A p \in task[t].written : InsideRoot(p)

(* ---------------------------------------------------------------------- *)
(* Server: POST /execute, POST /execute/stream, validateRequest and        *)
(* AuthManager.resolveAuth                                                 *)
(* ---------------------------------------------------------------------- *)
\* typeof
TypeOf(ty) == IF ty \in {"null", "array"} THEN "object" ELSE ty

PromptSet == { [ty |-> Absent, text |-> <<>>], [ty |-> "number", text |-> <<>>],
               [ty |-> "string", text |-> <<Blank>>], [ty |-> "string", text |-> <<"p", Blank>>] }
FileOk == [ty |-> "object", path |-> "string", content |-> "string"]
FileItemSet == { FileOk,
                 [ty |-> "null", path |-> Absent, content |-> Absent],
                 [ty |-> "number", path |-> Absent, content |-> Absent],
                 [ty |-> "object", path |-> "number", content |-> "string"],
                 [ty |-> "object", path |-> "string", content |-> Absent] }
FilesSet == { [ty |-> Absent, items |-> <<>>], [ty |-> "string", items |-> <<>>],
              [ty |-> "null", items |-> <<>>], [ty |-> "array", items |-> <<>>] }
            \cup { [ty |-> "array", items |-> <<FileOk>> \o tl] : tl \in {<<>>} \cup {<<f>> : f \in FileItemSet \ {FileOk}} }
TimeoutSet == { Absent, "number", "string" }
\* sid = NoSid with type string is the empty string
SessionIdSet == { [ty |-> Absent, sid |-> NoSid], [ty |-> "number", sid |-> NoSid],
                  [ty |-> "null", sid |-> NoSid], [ty |-> "string", sid |-> NoSid] }
                \cup { [ty |-> "string", sid |-> sid] : sid \in Sids }
BodySet(apiKeys) == [ty : {"object"}, prompt : PromptSet, files : FilesSet, timeout : TimeoutSet,
                     sessionId : SessionIdSet, apiKey : apiKeys]
\* env is process.env.ANTHROPIC_API_KEY being set; bearer is "none", "empty"
\* ('Bearer ' followed by white space only) or "key"; xApiKey is the header
\* being a non-empty string
HeaderSet == { [env |-> FALSE, bearer |-> "none", xApiKey |-> FALSE],
               [env |-> TRUE, bearer |-> "none", xApiKey |-> FALSE],
               [env |-> FALSE, bearer |-> "key", xApiKey |-> FALSE],
               [env |-> FALSE, bearer |-> "empty", xApiKey |-> TRUE] }
RequestSet == { [env |-> h.env, bearer |-> h.bearer, xApiKey |-> h.xApiKey, body |-> b] :
                  h \in HeaderSet, b \in BodySet({Absent}) \cup {NoBody} }
         \cup [env : {FALSE}, bearer : {"none", "empty"}, xApiKey : {FALSE}, body : BodySet({"string", "number"})]

NoAuth == NoKey
\* resolveAuth: the api key of the first source that has one, or null
ResolveAuth(req) ==
  IF req.env THEN 1
  ELSE IF req.bearer = "key" THEN 1
  ELSE IF req.xApiKey THEN 1
  ELSE IF req.body.ty # Absent /\ req.body.apiKey = "string" THEN 1
  ELSE NoAuth

NoFailure == ""
RECURSIVE FilesFailure(_)
\* the loop over files: the message of the first file that fails
FilesFailure(items) ==
  IF items = <<>> THEN NoFailure
  ELSE LET file == Head(items) IN
       IF file.ty = "null" \/ TypeOf(file.ty) # "object" THEN "Each file must be an object"
       ELSE IF TypeOf(file.path) # "string" \/ TypeOf(file.content) # "string"
       THEN "Each file must have path and content strings"
       ELSE FilesFailure(Tail(items))

\* validateRequest without the timeout rule
ValidateFailureNoTimeout(body) ==
  IF body.ty = Absent \/ TypeOf(body.ty) # "object" THEN "Request body must be an object"
  ELSE IF TypeOf(body.prompt.ty) # "string" \/ Trim(body.prompt.text) = <<>>
  THEN "prompt is required and must be a non-empty string"
  ELSE IF body.files.ty # Absent /\ body.files.ty # "array" THEN "files must be an array"
  ELSE IF FilesFailure(body.files.items) # NoFailure THEN FilesFailure(body.files.items)
  ELSE IF body.sessionId.ty # Absent /\ TypeOf(body.sessionId.ty) # "string" THEN "sessionId must be a string"
  ELSE NoFailure

\* validateRequest: the message of the Error it throws, NoFailure when it
\* returns
ValidateFailure(body) ==
  IF body.ty = Absent \/ TypeOf(body.ty) # "object" THEN "Request body must be an object"
  ELSE IF TypeOf(body.prompt.ty) # "string" \/ Trim(body.prompt.text) = <<>>
  THEN "prompt is required and must be a non-empty string"
  ELSE IF body.files.ty # Absent /\ body.files.ty # "array" THEN "files must be an array"
  ELSE IF FilesFailure(body.files.items) # NoFailure THEN FilesFailure(body.files.items)
  ELSE IF body.timeout # Absent /\ TypeOf(body.timeout) # "number" THEN "timeout must be a number"
  ELSE IF body.sessionId.ty # Absent /\ TypeOf(body.sessionId.ty) # "string" THEN "sessionId must be a string"
  ELSE NoFailure

\* request.files && request.files.length > 0
HasFiles(body) == body.files.ty = "array" /\ body.files.items # <<>>

AuthRequired == [text |-> "Authentication required", code |-> 0]

\* the route answers without calling the execution service
HttpAnswer(req, status, error) ==
  /\ nextTask' = nextTask + 1
  /\ task' = [task EXCEPT ![nextTask] = [NoTask EXCEPT !.kind = "http", !.pc = "done", !.req = req]]
  /\ http' = [http EXCEPT ![nextTask] = status]
  /\ resp' = [resp EXCEPT ![nextTask] = Failure(error)]
  /\ UNCHANGED <<proc, creates, wsExists, cleanups, delivered, registry, cancelOk, sessVars>>

\* POST /execute up to the first await of executionService.execute; a
\* behaviour of SpecHttp has one request
PostExecute(req, spawnOk) ==
  /\ nextTask = 1
  /\ IF ResolveAuth(req) = NoAuth THEN HttpAnswer(req, 401, AuthRequired)
     ELSE IF ValidateFailure(req.body) # NoFailure
     THEN HttpAnswer(req, 400, [text |-> ValidateFailure(req.body), code |-> 0])
     ELSE IF req.body.sessionId.sid # NoSid
     THEN StartSessExecuteOf(req, req.body.sessionId.sid, HasFiles(req.body), ResolveAuth(req), spawnOk)
     ELSE StartExecuteOf(req, HasFiles(req.body))

\* POST /execute/stream up to the first await of
\* executionService.executeStreaming
PostExecuteStream(req) ==
  /\ nextTask = 1
  /\ IF ResolveAuth(req) = NoAuth THEN HttpAnswer(req, 401, AuthRequired)
     ELSE IF ValidateFailure(req.body) # NoFailure
     THEN HttpAnswer(req, 400, [text |-> ValidateFailure(req.body), code |-> 0])
     ELSE IF req.body.sessionId.sid # NoSid
     THEN StartSessStreamOf(req, req.body.sessionId.sid, HasFiles(req.body), ResolveAuth(req))
     ELSE StartStreamOf(req, HasFiles(req.body))

\* the requests that can arrive: one per behaviour
Arrivals == IF nextTask = 1 THEN RequestSet ELSE {}

NextHttp ==
  \/ \E req \in Arrivals, spawnOk \in BOOLEAN : PostExecute(req, spawnOk)
  \/ \E req \in Arrivals : PostExecuteStream(req)
  \/ \E t \in Tasks, ok, spawnOk \in BOOLEAN : ExecCreateDone(t, ok, spawnOk)
  \/ \E t \in Tasks, ok, spawnOk \in BOOLEAN : ExecWriteDone(t, ok, spawnOk)
  \/ \E t \in Tasks : BufData(t)
  \/ \E t \in Tasks, code \in ExitCodes \cup {NullCode, ErrnoCode}, stderr \in StderrSet : BufClose(t, code, stderr)
  \/ \E t \in Tasks : BufSpawnError(t)
  \/ \E t \in Tasks, ign \in BOOLEAN : BufTimeout(t, ign)
  \/ \E t \in Tasks : GraceFire(t)
  \/ \E t \in Tasks : ExecRmComplete(t)
  \/ \E t \in Tasks : ExecReturn(t)
  \/ \E t \in Tasks, ok, spawnOk \in BOOLEAN : GocCreateDone(t, ok, spawnOk)
  \/ \E t \in Tasks, ok, spawnOk \in BOOLEAN : GocWriteDone(t, ok, spawnOk)
  \/ \E t \in Tasks : SessExecData(t)
  \/ \E t \in Tasks, code \in ExitCodes \cup {ErrnoCode}, stderr \in StderrSet : SessExecClose(t, code, stderr)
  \/ \E t \in Tasks : SessExecSpawnError(t)
  \/ \E t \in Tasks : SessExecReturn(t)
  \/ \E t \in Tasks, ok, spawnOk \in BOOLEAN : StreamCreateDone(t, ok, spawnOk)
  \/ \E t \in Tasks, ok, spawnOk \in BOOLEAN : StreamWriteDone(t, ok, spawnOk)
  \/ \E t \in Tasks : StreamRmComplete(t)
  \/ \E t \in Tasks, code \in ExitCodes \cup {NullCode, ErrnoCode}, stderr \in StderrSet : StreamClose(t, code, stderr)
  \/ \E t \in Tasks : StreamSpawnError(t)
  \/ \E t \in Tasks, ign \in BOOLEAN : StreamTimeout(t, ign)
  \/ \E t \in Tasks, spawnOk \in BOOLEAN : SessStreamImported(t, spawnOk)
  \/ \E t \in Tasks, code \in ExitCodes, stderr \in StderrSet, withProc \in BOOLEAN :
        SessStreamClose(t, code, stderr, withProc)
  \/ \E t \in Tasks : SessStreamSpawnError(t)

SpecHttp == Init /\ [][NextHttp]_vars

\* the validation rules as stated: prompt missing, not a string or empty
\* after trimming; files present but not an array of objects with string
\* path and string content; timeout present but not a number; sessionId
\* present but not a string
Violates(body) ==
  \/ body.prompt.ty # "string"
  \/ Trim(body.prompt.text) = <<>>
  \/ /\ body.files.ty # Absent
     /\ ~ /\ body.files.ty = "array"
          /\ \A i \in 1..Len(body.files.items) :
               LET file == body.files.items[i] IN
               file.ty = "object" /\ file.path = "string" /\ file.content = "string"
  \/ body.timeout # Absent /\ body.timeout # "number"
  \/ body.sessionId.ty # Absent /\ body.sessionId.ty # "string"

\* the request of task t was answered with status and no workspace or
\* session was asked for on its behalf
RefusedWith(t, status) ==
  /\ task[t].kind = "http" /\ http[t] = status
  /\ creates[t] = 0 /\ task[t].ws = NoWs /\ proc[t].st = "none"
  /\ \A s \in Sids : sessWs[s] # t

\* C14 (as the code has it): a request that carries an api key and whose
\* body violates a validation rule is answered with HTTP 400, on /execute
\* and on /execute/stream, and neither WorkspaceManager.create nor
\* SessionManager.getOrCreate is called for it; a request without an api key
\* is answered with HTTP 401 before its body is validated, and nothing is
\* called for it either.
C14_InvalidIsRefused ==
  \A t \in Tasks :
    /\ task[t].kind # "none" /\ ResolveAuth(task[t].req) # NoAuth /\ Violates(task[t].req.body)
         => RefusedWith(t, 400)
    /\ task[t].kind # "none" /\ ResolveAuth(task[t].req) = NoAuth /\ task[t].req # NoReq
         => RefusedWith(t, 401)

\* an authenticated request whose timeout is a string has been answered 400
C14_Witness ==
  \E t \in Tasks :
    /\ ResolveAuth(task[t].req) # NoAuth /\ task[t].req.body.timeout = "string"
    /\ task[t].req.body.prompt.text = <<"p", Blank>> /\ task[t].req.body.files.ty = Absent
    /\ task[t].req.body.sessionId.ty = Absent
    /\ RefusedWith(t, 400) /\ resp[t].error.text = "timeout must be a number"

\* C14 (as stated): every request whose body violates a validation rule is
\* answered with HTTP 400 and nothing is created for it.
C14_InvalidIs400 ==
  \A t \in Tasks :
    task[t].kind # "none" /\ Violates(task[t].req.body) => RefusedWith(t, 400)

(* ---------------------------------------------------------------------- *)
(* main: the SIGTERM handler next to a streaming execution                 *)
(* ---------------------------------------------------------------------- *)
\* a step of the streaming execution, or a cancel request, while the server
\* process lives
ServerStep == ~halted /\ NextLines

\* no session is opened: shutdown() finds an empty map and the handler exits
NextTerm ==
  \/ ServerStep
  \/ StartShutdown

SpecTerm == Init /\ [][NextTerm]_vars

\* C21: once the SIGTERM handler has called process.exit, no agent child
\* process is still running and the registry holds no execution.
C21_NoOrphanAfterExit ==
  halted => registry = {} /\ \A t \in Tasks : proc[t].st # "running"

(* ---------------------------------------------------------------------- *)
(* SessionManager.execute: the resume token                                *)
(* ---------------------------------------------------------------------- *)
\* what the agent writes in its chunk number n + 1: first a JSON document
\* with or without a token, the first half of one, or text that is not
\* JSON; then closing braces
JsonChunkSet(n) ==
  IF n = 0 THEN { <<"{", "}">>, <<"{", "c1", "}">>, <<"{", "s3", "}">>, <<"{", "s3", "c2">>, <<"x">> }
  ELSE { <<"}">> }

\* execute with a sessionId, without files or api key; runs of this
\* specification follow one another
StartResumeExecute(sid, spawnOk) ==
  /\ nextTask <= MaxRuns
  /\ \A t \in Tasks : task[t].kind = "sexec" => task[t].pc = "done"
  /\ SessExecuteCall(NoReq, sid, FALSE, NoKey, spawnOk)

\* claude.stdout.on('data'): stdout += chunk
SessExecJson(t, chunk) ==
  /\ task[t].kind = "sexec" /\ proc[t].st = "running"
  /\ Len(proc[t].out) < MaxLines
  /\ chunk \in JsonChunkSet(Len(proc[t].out))
  /\ proc' = [proc EXCEPT ![t].out = Append(@, chunk), ![t].sout = Append(@, chunk)]
  /\ UNCHANGED <<nextTask, task, creates, wsExists, cleanups, resp, http, delivered, registry, cancelOk, sessVars>>

NextResume ==
  \/ \E sid \in Sids, spawnOk \in BOOLEAN : StartResumeExecute(sid, spawnOk)
  \/ \E t \in Tasks, ok, spawnOk \in BOOLEAN : GocCreateDone(t, ok, spawnOk)
  \/ \E t \in Tasks, chunk \in JsonChunkSet(0) \cup JsonChunkSet(1) : SessExecJson(t, chunk)
  \/ \E t \in Tasks, code \in ExitCodes \cup {ErrnoCode} : SessExecClose(t, code, "")
  \/ \E t \in Tasks : SessExecSpawnError(t)
  \/ \E t \in Tasks : SessExecReturn(t)

SpecResume == Init /\ [][NextResume]_vars

\* the token an output contains: the output is one JSON object that has a
\* conversation_id or, failing that, a session_id
OutputToken(text) ==
  IF ~ParsesAsObject(text) THEN NoToken
  ELSE IF \E i \in 1..Len(text) : text[i] \in ConvMembers THEN MemberValue(text, ConvMembers)
  ELSE MemberValue(text, SessMembers)

\* C22: SessionManager.execute spawns the agent with the session's stored
\* token after --resume whenever one is stored; when the run exits 0 and its
\* output contains a token the session stores that token; when it exits 0
\* without a parseable token the call succeeds and the stored token is
\* unchanged; when it exits nonzero or fails to spawn the stored token is
\* unchanged.
C22_ResumeToken ==
  [][\A t \in Tasks :
       /\ task'[t].kind = "sexec" /\ proc[t].st = "none" /\ proc'[t].st # "none"
            => proc'[t].resume = sessConv[task'[t].ws]
       /\ task[t].kind = "sexec" /\ task[t].pc = "srun" /\ proc[t].st = "running" /\ proc'[t].st = "closed"
            => LET w == task[t].ws
                   tok == OutputToken(Flat(proc[t].sout))
               IN IF proc'[t].code = 0
                  THEN /\ task'[t].res.success
                       /\ sessConv' = [sessConv EXCEPT ![w] = IF tok # NoToken THEN tok ELSE @]
                  ELSE ~task'[t].res.success /\ sessConv' = sessConv
       /\ task[t].kind = "sexec" /\ proc[t].st \in {"errpending", "errored"} /\ proc'[t] # proc[t]
            => sessConv' = sessConv
    ]_vars

\* the second run of a session was started with the token of the first and
\* has replaced it by the token in its own output
C22_Witness ==
  \E t \in Tasks :
    /\ task[t].kind = "sexec" /\ task[t].pc = "ret" /\ task[t].res.success
    /\ proc[t].resume = "c1" /\ proc[t].st = "closed" /\ proc[t].code = 0
    /\ Flat(proc[t].sout) = <<"{", "s3", "}">>
    /\ sessConv[task[t].ws] = "s3"

(* ---------------------------------------------------------------------- *)
(* SessionManager: lastActivity under getOrCreate, get, execute and delete *)
(* ---------------------------------------------------------------------- *)
\* get(sessionId) of a session that is in the map: it refreshes
\* lastActivity; for an id that is not in the map it changes nothing
SessionGet(sid) ==
  /\ ~halted
  /\ sessWs[sid] # NoWs
  /\ sessLast' = [sessLast EXCEPT ![sessWs[sid]] = now]
  /\ UNCHANGED <<nextTask, task, proc, creates, wsExists, cleanups, resp, http, delivered, registry, cancelOk,
                 sessKeys, sessWs, sessKey, now, timerOn, halted, removals, sessConv>>

\* the calls of this specification follow one another: a call starts when
\* every earlier one has returned
NoCallInFlight == \A t \in Tasks : task[t].kind # "none" => task[t].pc \in {"done", "failed"}

\* getOrCreate called directly, without an api key
ActivityGetOrCreate(sid, files) == NoCallInFlight /\ StartGetOrCreate(sid, files, NoKey)

\* execute with a sessionId; the agent starts
ActivityExecute(sid) == NoCallInFlight /\ StartResumeExecute(sid, TRUE)

\* delete(sessionId)
ActivityDelete(sid) == NoCallInFlight /\ StartDelete(sid)

NextActivity ==
  \/ \E sid \in Sids, files \in BOOLEAN : ActivityGetOrCreate(sid, files)
  \/ \E sid \in Sids : ActivityExecute(sid)
  \/ \E sid \in Sids : ActivityDelete(sid)
  \/ \E t \in Tasks : DelRmDone(t)
  \/ \E t \in Tasks : DelResume(t)
  \/ \E t \in Tasks, ok \in BOOLEAN : GocCreateDone(t, ok, TRUE)
  \/ \E t \in Tasks, ok \in BOOLEAN : GocWriteDone(t, ok, TRUE)
  \/ \E t \in Tasks, code \in ExitCodes : SessExecClose(t, code, "")
  \/ \E t \in Tasks : SessExecReturn(t)
  \/ \E sid \in Sids : SessionGet(sid)
  \/ Tick

SpecActivity == Init /\ [][NextActivity]_vars

\* this step is the return of a getOrCreate call of task t
GocReturns(t) ==
  /\ task[t].pc \in {"idle", "gcreate", "gwrite"}
  /\ task'[t].kind \in {"goc", "sexec"} /\ task'[t].pc \in {"done", "srun"}

\* C23: while a session stays in the session map its lastActivity never
\* decreases, whatever getOrCreate, get and execute calls are made, and every
\* getOrCreate that returns a session leaves its lastActivity at the current
\* time.
C23_LastActivityMonotone ==
  [][/\ \A sid \in Sids :
          sessWs[sid] # NoWs /\ sessWs'[sid] = sessWs[sid]
            => sessLast'[sessWs[sid]] >= sessLast[sessWs[sid]]
     /\ \A t \in Tasks : GocReturns(t) => sessLast'[task'[t].ws] = now'
    ]_vars

\* a getOrCreate has returned a session that existed before, after the
\* clock advanced, and a run of that session has finished as well
C23_Witness ==
  \E t, u \in Tasks :
    /\ task[t].kind = "goc" /\ task[t].pc = "done" /\ creates[t] = 0
    /\ task[t].ret # NoWs /\ sessLast[task[t].ret] = now /\ now >= 1
    /\ task[u].kind = "sexec" /\ task[u].pc = "done" /\ task[u].ws = task[t].ret

(* ---------------------------------------------------------------------- *)
(* SessionManager: the api key of a session and the child's environment    *)
(* ---------------------------------------------------------------------- *)
\* credentials requests supply: none, or one of two keys
CredSet == {NoKey, 1, 2}

\* execute with a sessionId and a credential; requests may overlap
StartCredExecute(sid, files, key, spawnOk) ==
  /\ nextTask <= MaxRuns
  /\ SessExecuteCall(NoReq, sid, files, key, spawnOk)

NextCred ==
  \/ \E sid \in Sids, files \in BOOLEAN, key \in CredSet, spawnOk \in BOOLEAN :
        StartCredExecute(sid, files, key, spawnOk)
  \/ \E t \in Tasks, ok, spawnOk \in BOOLEAN : GocCreateDone(t, ok, spawnOk)
  \/ \E t \in Tasks, ok, spawnOk \in BOOLEAN : GocWriteDone(t, ok, spawnOk)
  \/ \E t \in Tasks, code \in ExitCodes \cup {ErrnoCode} : SessExecClose(t, code, "")
  \/ \E t \in Tasks : SessExecSpawnError(t)
  \/ \E t \in Tasks : SessExecReturn(t)

SpecCred == Init /\ [][NextCred]_vars

\* C24: the agent process of a request has the request's credential in its
\* environment when the request supplies one and the ambient value of the
\* server when it supplies none.
C24_EnvIsRequestCredential ==
  \A t \in Tasks :
    task[t].kind = "sexec" /\ task[t].pc = "srun" /\ proc[t].st # "none"
      => proc[t].env = IF task[t].key # NoKey THEN task[t].key ELSE AmbientKey

(* ---------------------------------------------------------------------- *)
(* WorkspaceManager.create: the name of the new directory                  *)
(* ---------------------------------------------------------------------- *)
\* Math.random().toString(36).slice(2, 8): any of the suffixes
RandomSuffixes == {"k3f9x1", "q0z7ab"}

\* `workspace-${Date.now()}-${suffix}` under baseDir
WorkspaceName(time, suffix) == <<"base", "workspace", time, suffix>>

\* create() up to its first await: the name is chosen and mkdir is started
CreateCall(suffix) ==
  /\ nextTask <= MaxCall
  /\ nextTask' = nextTask + 1
  /\ task' = [task EXCEPT ![nextTask] = [NoTask EXCEPT !.kind = "wcreate", !.pc = "mkdir",
                                                      !.path = WorkspaceName(now, suffix)]]
  /\ UNCHANGED <<proc, creates, wsExists, cleanups, resp, http, delivered, registry, cancelOk, sessVars>>

\* fs.mkdir(workspacePath, {recursive: true}) settles: it succeeds whether
\* or not the directory is there already
CreateMkdirDone(t, ok) ==
  /\ task[t].kind = "wcreate" /\ task[t].pc = "mkdir"
  /\ task' = [task EXCEPT ![t].pc = IF ok THEN "copy" ELSE "failed", ![t].path = IF ok THEN @ ELSE NoPath]
  /\ UNCHANGED <<nextTask, proc, creates, wsExists, cleanups, resp, http, delivered, registry, cancelOk, sessVars>>

\* copyPluginFiles settles (its errors are swallowed) and create returns
\* workspacePath
CreateCopyDone(t) ==
  /\ task[t].kind = "wcreate" /\ task[t].pc = "copy"
  /\ task' = [task EXCEPT ![t].pc = "done"]
  /\ UNCHANGED <<nextTask, proc, creates, wsExists, cleanups, resp, http, delivered, registry, cancelOk, sessVars>>

NextCreate ==
  \/ \E suffix \in RandomSuffixes : CreateCall(suffix)
  \/ \E t \in Tasks, ok \in BOOLEAN : CreateMkdirDone(t, ok)
  \/ \E t \in Tasks : CreateCopyDone(t)
  \/ Tick

SpecCreate == Init /\ [][NextCreate]_vars

\* C25: any two calls of create return different directories.
C25_CreateReturnsDistinct ==
  \A t, u \in Tasks :
    /\ t # u
    /\ task[t].kind = "wcreate" /\ task[t].pc = "done"
    /\ task[u].kind = "wcreate" /\ task[u].pc = "done"
    => task[t].path # task[u].path

\* C26: on the stateless paths (buffered and streaming) the cleanup of a
\* request's workspace is not started while the agent process spawned for
\* that request is still alive.
C26_NoCleanupWhileAlive ==
  \A t \in Tasks :
    task[t].kind \in {"exec", "stream"} /\ proc[t].st = "running" => cleanups[t] = 0

(* ---------------------------------------------------------------------- *)
(* SessionManager: the idle sweep and the agents of SessionManager.execute *)
(* ---------------------------------------------------------------------- *)
\* execute with a sessionId, without files or api key, the spawn succeeds
StartIdleExecute(sid) ==
  /\ nextTask <= MaxRuns
  /\ SessExecuteCall(NoReq, sid, FALSE, NoKey, TRUE)

NextSweep ==
  \/ \E sid \in Sids : StartIdleExecute(sid)
  \/ \E t \in Tasks, ok \in BOOLEAN : GocCreateDone(t, ok, TRUE)
  \/ \E t \in Tasks, code \in ExitCodes : SessExecClose(t, code, "")
  \/ \E t \in Tasks : SessExecReturn(t)
  \/ StartSweep
  \/ \E t \in Tasks : DelRmDone(t)
  \/ \E t \in Tasks : DelResume(t)
  \/ Tick

SpecSweep == Init /\ [][NextSweep]_vars

\* C27: while an agent process started by SessionManager.execute for a
\* session is running, the idle sweep has not started to remove that
\* session's workspace: the workspace exists and no cleanup of it has begun.
C27_SweepSparesRunning ==
  \A t \in Tasks :
    task[t].kind = "sexec" /\ task[t].pc = "srun" /\ proc[t].st = "running" =>
      /\ task[t].ws \in wsExists
      /\ cleanups[task[t].ws] = 0

\* C28: in every reachable state, also while delete, the sweep or shutdown
\* is suspended at an await, the workspace of every session in the session
\* map exists.
C28_MappedWorkspaceExists ==
  \A sid \in Sids : sessWs[sid] # NoWs => sessWs[sid] \in wsExists

\* C29: on the emitter handed to the caller of a streaming execution
\* nothing is delivered after a terminal event ('end', 'error' or
\* 'cancelled'): no 'data', no 'event' and no further terminal event.
C29_NothingAfterTerminal ==
  \A t \in Tasks : task[t].kind = "stream" =>
    \A i \in 1..Len(delivered[t]) :
      delivered[t][i].ev \in {"end", "error", "cancelled"} => i = Len(delivered[t])

\* no call is suspended at an await
Quiescent == \A t \in Tasks : task[t].pc \in {"idle", "done", "failed", "rejected"}

\* C30: in every quiescent state each workspace that was created and is not
\* yet destroyed is the workspace of exactly one session in the session map.
C30_NoOrphanWorkspace ==
  Quiescent => \A w \in wsExists : Cardinality({sid \in Sids : sessWs[sid] = w}) = 1


============================================================================
